---- MODULE Spec2Model ----
(***************************************************************************)
(* The capture session of traffic2api: captureWithHar                     *)
(* (src/capture/src/har-capture.ts).  One session launches a browser,      *)
(* opens and closes a scratch context, opens the recording context bound   *)
(* to temp_capture_<Date.now()>.har, visits the targets one after the      *)
(* other, closes context and browser, reads the HAR file back, deletes it, *)
(* parses it and derives the summaries.  Every await of the function is a  *)
(* step that either resolves or rejects.  Sessions share the clock and the *)
(* working directory (files).                                              *)
(***************************************************************************)
EXTENDS Integers, Sequences, FiniteSets, TLC

\* ---- bounds of the model
MaxTargets == 2
MaxClock == 1
ConcTargets == 1
MaxEntries == 2
MaxCookies == 1

\* options.waitMs is optional: Undefined stands for the absent field
Undefined == -1

VARIABLES
    now,            \* Date.now(), shared by all sessions
    files,          \* the working directory: path -> file text
    urls,           \* urls[s]: the target list of session s
    options,        \* options[s]: [waitMs]
    pc,             \* pc[s]: the await the session is at
    browser,        \* "none" | "open" | "closed"
    scratch,        \* the context of lines 31-55: "none" | "open" | "closed"
    scratchHar,     \* the paths the scratch context records to
    context,        \* the recording context of line 62
    tempHarPath,    \* const tempHarPath of line 61
    page,           \* "none" | "open" | "closed"
    idx,            \* how many elements of urls the for-of loop has taken
    trace,          \* entries the recording context holds in memory
    visits,         \* one record per loop iteration: url, nav, pause
    pagesVisited,
    harContent,     \* the text readFile returned
    result,         \* <<>> or <<CaptureResult>>
    error,          \* what the returned promise rejected with
    cli             \* the command-line runner around the session (part_001)

vars == <<now, files, urls, options, pc, browser, scratch, scratchHar, context,
          tempHarPath, page, idx, trace, visits, pagesVisited, harContent,
          result, error, cli>>

Sessions == DOMAIN pc

\* ---- paths and files
Path(kind, ts) == [kind |-> kind, ts |-> ts]
NoPath == Path("none", 0)
\* "temp_har.har" (line 33)
TempHar == Path("temp_har", 0)
\* `temp_${Date.now()}.har` (line 46)
ScratchPath(t) == Path("temp", t)
\* `temp_capture_${Date.now()}.har` (line 61)
CapturePath(t) == Path("temp_capture", t)

NoFiles == [p \in {} |-> 0]
WriteFile(fs, p, text) ==
    [q \in DOMAIN fs \cup {p} |-> IF q = p THEN text ELSE fs[q]]
WriteFiles(fs, ps, text) ==
    [q \in DOMAIN fs \cup ps |-> IF q \in ps THEN text ELSE fs[q]]
Unlinked(fs, p) == [q \in DOMAIN fs \ {p} |-> fs[q]]

\* The text of a HAR file: whether it is complete JSON, and the entries it holds
HarText(complete, entries) == [json |-> complete, entries |-> entries]
NoText == HarText(FALSE, <<>>)

\* ---- the trace
Cookie(n, v) == [name |-> n, value |-> v]
Entry(req, res) == [request |-> [cookies |-> req], response |-> [cookies |-> res]]

\* What one navigation can add to the trace in the session model
NavEntries ==
    { Entry(<<Cookie("sid", "1")>>, <<>>),
      Entry(<<>>, <<Cookie("sid", "2")>>) }

\* options.waitMs as the condition of line 79
Truthy(w) == w # Undefined /\ w # 0

\* ---- lines 96-123: parse, aggregate, build the result
\* JSON.parse(harContent) (line 96)
JsonParse(text) == [log |-> [entries |-> text.entries]]

EmptyMap == [k \in {} |-> ""]

\* cookies[cookie.name] = cookie.value on a plain object (lines 104, 109):
\* assigning a string to the key "__proto__" runs the inherited setter, which
\* ignores non-object values, and creates no own property
SetCookie(m, k, v) ==
    IF k = "__proto__" THEN m
    ELSE [x \in DOMAIN m \cup {k} |-> IF x = k THEN v ELSE m[x]]

RECURSIVE MergeCookies(_, _)
MergeCookies(m, cs) ==
    IF cs = <<>> THEN m
    ELSE MergeCookies(SetCookie(m, Head(cs).name, Head(cs).value), Tail(cs))

RECURSIVE AggregateFrom(_, _)
AggregateFrom(m, entries) ==
    IF entries = <<>> THEN m
    ELSE AggregateFrom(
            MergeCookies(MergeCookies(m, Head(entries).request.cookies),
                         Head(entries).response.cookies),
            Tail(entries))

ExtractCookies(harJson) == AggregateFrom(EmptyMap, harJson.log.entries)

\* requestCount taken from the cookie map instead of the entry list
RequestCountOfCookies(harJson) == Cardinality(DOMAIN ExtractCookies(harJson))

RequestCount(harJson) == Len(harJson.log.entries)

CaptureResult(harJson, visited) ==
    [ har |-> harJson,
      requestCount |-> RequestCount(harJson),
      method |-> "playwright-har",
      crawlResult |-> [pagesCrawled |-> visited],
      cookies |-> ExtractCookies(harJson) ]

\* ---- steps of a session
Goto(s, to) == pc' = [pc EXCEPT ![s] = to]
Reject(s, cause) ==
    /\ pc' = [pc EXCEPT ![s] = "rejected"]
    /\ error' = [error EXCEPT ![s] = cause]

\* chromium.launch (lines 26-28)
Launch(s) ==
    /\ pc[s] = "launch"
    /\ \/ /\ browser' = [browser EXCEPT ![s] = "open"]
          /\ Goto(s, "scratchNewContext")
          /\ UNCHANGED error
       \/ /\ Reject(s, "launch")
          /\ UNCHANGED browser
    /\ UNCHANGED <<cli, now, files, urls, options, scratch, scratchHar, context,
                   tempHarPath, page, idx, trace, visits, pagesVisited,
                   harContent, result>>

\* browser.newContext({recordHar: {path: "temp_har.har"}}) inside try (lines 30-41)
ScratchNewContext(s) ==
    /\ pc[s] = "scratchNewContext"
    /\ \/ /\ scratch' = [scratch EXCEPT ![s] = "open"]
          /\ scratchHar' = [scratchHar EXCEPT ![s] = {TempHar}]
          /\ Goto(s, "scratchRoute")
       \/ /\ Goto(s, "newContext")
          /\ UNCHANGED <<scratch, scratchHar>>
    /\ UNCHANGED <<cli, now, files, urls, options, browser, context, tempHarPath,
                   page, idx, trace, visits, pagesVisited, harContent, result,
                   error>>

\* context.routeFromHAR(`temp_${Date.now()}.har`, {update: true}) (lines 46-51)
ScratchRouteFromHAR(s) ==
    /\ pc[s] = "scratchRoute"
    /\ \/ /\ scratchHar' = [scratchHar EXCEPT ![s] = @ \cup {ScratchPath(now)}]
          /\ Goto(s, "scratchClose")
       \/ /\ Goto(s, "newContext")
          /\ UNCHANGED scratchHar
    /\ UNCHANGED <<cli, now, files, urls, options, browser, scratch, context,
                   tempHarPath, page, idx, trace, visits, pagesVisited,
                   harContent, result, error>>

\* await context.close() of the scratch context (line 55); catch ignores (56-58)
ScratchClose(s) ==
    /\ pc[s] = "scratchClose"
    /\ \/ /\ files' = WriteFiles(files, scratchHar[s], HarText(TRUE, <<>>))
          /\ scratch' = [scratch EXCEPT ![s] = "closed"]
       \/ UNCHANGED <<files, scratch>>
    /\ Goto(s, "newContext")
    /\ UNCHANGED <<cli, now, urls, options, browser, scratchHar, context,
                   tempHarPath, page, idx, trace, visits, pagesVisited,
                   harContent, result, error>>

\* tempHarPath and browser.newContext({recordHar: {path: tempHarPath}}) (61-67)
NewContext(s) ==
    /\ pc[s] = "newContext"
    /\ tempHarPath' = [tempHarPath EXCEPT ![s] = CapturePath(now)]
    /\ \/ /\ context' = [context EXCEPT ![s] = "open"]
          /\ Goto(s, "newPage")
          /\ UNCHANGED error
       \/ /\ Reject(s, "newContext")
          /\ UNCHANGED context
    /\ UNCHANGED <<cli, now, files, urls, options, browser, scratch, scratchHar,
                   page, idx, trace, visits, pagesVisited, harContent, result>>

\* context.newPage() and let pagesVisited = 0 (lines 69-70)
NewPage(s) ==
    /\ pc[s] = "newPage"
    /\ \/ /\ page' = [page EXCEPT ![s] = "open"]
          /\ Goto(s, "loop")
          /\ UNCHANGED error
       \/ /\ Reject(s, "newPage")
          /\ UNCHANGED page
    /\ UNCHANGED <<cli, now, files, urls, options, browser, scratch, scratchHar,
                   context, tempHarPath, idx, trace, visits, pagesVisited,
                   harContent, result>>

Visit(u) == [url |-> u, nav |-> "pending", pause |-> "none"]
SetLast(vs, field, val) == [vs EXCEPT ![Len(vs)] = [@ EXCEPT ![field] = val]]

\* for (const url of urls): page.goto(url, ...) is called (lines 75-78)
GotoStart(s) ==
    /\ pc[s] = "loop"
    /\ idx[s] < Len(urls[s])
    /\ idx' = [idx EXCEPT ![s] = @ + 1]
    /\ visits' = [visits EXCEPT ![s] = Append(@, Visit(urls[s][idx[s] + 1]))]
    /\ Goto(s, "goto")
    /\ UNCHANGED <<cli, now, files, urls, options, browser, scratch, scratchHar,
                   context, tempHarPath, page, trace, pagesVisited, harContent,
                   result, error>>

\* page.goto resolves and the iteration ends without the pause of lines 79-81
GotoOkSkipsPause(s) ==
    /\ pc[s] = "goto"
    /\ page[s] = "open"
    /\ \E e \in NavEntries : trace' = [trace EXCEPT ![s] = Append(@, e)]
    /\ visits' = [visits EXCEPT ![s] = SetLast(@, "nav", "ok")]
    /\ pagesVisited' = [pagesVisited EXCEPT ![s] = @ + 1]
    /\ Goto(s, "loop")
    /\ UNCHANGED <<cli, now, files, urls, options, browser, scratch, scratchHar,
                   context, tempHarPath, page, idx, harContent, result, error>>

\* page.goto resolves; without a truthy waitMs the iteration ends (lines 78-82)
GotoOk(s) ==
    /\ pc[s] = "goto"
    /\ page[s] = "open"
    /\ \E e \in NavEntries : trace' = [trace EXCEPT ![s] = Append(@, e)]
    /\ visits' = [visits EXCEPT ![s] = SetLast(@, "nav", "ok")]
    /\ IF Truthy(options[s].waitMs)
       THEN /\ Goto(s, "pause")
            /\ UNCHANGED pagesVisited
       ELSE /\ pagesVisited' = [pagesVisited EXCEPT ![s] = @ + 1]
            /\ Goto(s, "loop")
    /\ UNCHANGED <<cli, now, files, urls, options, browser, scratch, scratchHar,
                   context, tempHarPath, page, idx, harContent, result, error>>

\* page.goto rejects and nothing catches it
GotoFailRethrow(s) ==
    /\ pc[s] = "goto"
    /\ visits' = [visits EXCEPT ![s] = SetLast(@, "nav", "failed")]
    /\ Reject(s, "goto")
    /\ UNCHANGED <<cli, now, files, urls, options, browser, scratch, scratchHar,
                   context, tempHarPath, page, idx, trace, pagesVisited,
                   harContent, result>>

\* page.goto rejects, the catch logs and the loop goes on (lines 78, 83-85);
\* the failed request may or may not have left an entry in the trace
GotoFail(s) ==
    /\ pc[s] = "goto"
    /\ \E es \in {<<>>} \cup {<<e>> : e \in NavEntries} :
          trace' = [trace EXCEPT ![s] = @ \o es]
    /\ visits' = [visits EXCEPT ![s] = SetLast(@, "nav", "failed")]
    /\ Goto(s, "loop")
    /\ UNCHANGED <<cli, now, files, urls, options, browser, scratch, scratchHar,
                   context, tempHarPath, page, idx, pagesVisited, harContent,
                   result, error>>

\* page.waitForTimeout(options.waitMs) resolves, pagesVisited++ (lines 80-82)
PauseOk(s) ==
    /\ pc[s] = "pause"
    /\ visits' = [visits EXCEPT ![s] = SetLast(@, "pause", "ok")]
    /\ pagesVisited' = [pagesVisited EXCEPT ![s] = @ + 1]
    /\ Goto(s, "loop")
    /\ UNCHANGED <<cli, now, files, urls, options, browser, scratch, scratchHar,
                   context, tempHarPath, page, idx, trace, harContent, result,
                   error>>

\* page.waitForTimeout rejects because the page was closed under it; the same
\* catch takes it and pagesVisited++ is skipped (lines 80, 83-85)
PauseFail(s) ==
    /\ pc[s] = "pause"
    /\ visits' = [visits EXCEPT ![s] = SetLast(@, "pause", "failed")]
    /\ page' = [page EXCEPT ![s] = "closed"]
    /\ Goto(s, "loop")
    /\ UNCHANGED <<cli, now, files, urls, options, browser, scratch, scratchHar,
                   context, tempHarPath, idx, trace, pagesVisited, harContent,
                   result, error>>

\* await context.close() (line 88): the recorder writes the HAR to tempHarPath.
\* The file a resolved close leaves may be incomplete (a short write); a
\* rejected close may or may not have written it.
ContextClose(s) ==
    /\ pc[s] = "loop"
    /\ idx[s] = Len(urls[s])
    /\ \/ /\ \E complete \in BOOLEAN :
                files' = WriteFile(files, tempHarPath[s], HarText(complete, trace[s]))
          /\ context' = [context EXCEPT ![s] = "closed"]
          /\ Goto(s, "browserClose")
          /\ UNCHANGED error
       \/ /\ \/ files' = WriteFile(files, tempHarPath[s], HarText(FALSE, trace[s]))
             \/ UNCHANGED files
          /\ Reject(s, "contextClose")
          /\ UNCHANGED context
    /\ UNCHANGED <<cli, now, urls, options, browser, scratch, scratchHar,
                   tempHarPath, page, idx, trace, visits, pagesVisited,
                   harContent, result>>

\* await browser.close() (line 89)
BrowserClose(s) ==
    /\ pc[s] = "browserClose"
    /\ \/ /\ browser' = [browser EXCEPT ![s] = "closed"]
          /\ Goto(s, "readFile")
          /\ UNCHANGED error
       \/ /\ Reject(s, "browserClose")
          /\ UNCHANGED browser
    /\ UNCHANGED <<cli, now, files, urls, options, scratch, scratchHar, context,
                   tempHarPath, page, idx, trace, visits, pagesVisited,
                   harContent, result>>

\* await fs.readFile(tempHarPath, 'utf-8') (lines 92-93)
ReadFile(s) ==
    /\ pc[s] = "readFile"
    /\ \/ /\ tempHarPath[s] \in DOMAIN files
          /\ harContent' = [harContent EXCEPT ![s] = files[tempHarPath[s]]]
          /\ Goto(s, "unlink")
          /\ UNCHANGED error
       \/ /\ Reject(s, "readFile")
          /\ UNCHANGED harContent
    /\ UNCHANGED <<cli, now, files, urls, options, browser, scratch, scratchHar,
                   context, tempHarPath, page, idx, trace, visits,
                   pagesVisited, result>>

\* await fs.unlink(tempHarPath) (line 94)
Unlink(s) ==
    /\ pc[s] = "unlink"
    /\ \/ /\ tempHarPath[s] \in DOMAIN files
          /\ files' = Unlinked(files, tempHarPath[s])
          /\ Goto(s, "parse")
          /\ UNCHANGED error
       \/ /\ Reject(s, "unlink")
          /\ UNCHANGED files
    /\ UNCHANGED <<cli, now, urls, options, browser, scratch, scratchHar, context,
                   tempHarPath, page, idx, trace, visits, pagesVisited,
                   harContent, result>>

\* Cookies taken from the first request only, read without a guard: an empty
\* entry list throws
ParseReturnFirstRequest(s) ==
    /\ pc[s] = "parse"
    /\ \/ /\ harContent[s].json
          /\ harContent[s].entries # <<>>
          /\ result' = [result EXCEPT ![s] =
                <<[CaptureResult(JsonParse(harContent[s]), pagesVisited[s])
                     EXCEPT !.cookies =
                        MergeCookies(EmptyMap, harContent[s].entries[1].request.cookies)]>>]
          /\ Goto(s, "done")
          /\ UNCHANGED error
       \/ /\ ~harContent[s].json \/ harContent[s].entries = <<>>
          /\ Reject(s, "parse")
          /\ UNCHANGED result
    /\ UNCHANGED <<cli, now, files, urls, options, browser, scratch, scratchHar,
                   context, tempHarPath, page, idx, trace, visits,
                   pagesVisited, harContent>>

\* A parse failure that still hands back what was gathered so far
ParseReturnPartial(s) ==
    /\ pc[s] = "parse"
    /\ result' = [result EXCEPT ![s] =
                    <<CaptureResult(JsonParse(HarText(TRUE,
                          IF harContent[s].json THEN harContent[s].entries ELSE <<>>)),
                        pagesVisited[s])>>]
    /\ IF harContent[s].json
       THEN Goto(s, "done") /\ UNCHANGED error
       ELSE Reject(s, "parse")
    /\ UNCHANGED <<cli, now, files, urls, options, browser, scratch, scratchHar,
                   context, tempHarPath, page, idx, trace, visits,
                   pagesVisited, harContent>>

\* JSON.parse, cookie aggregation and the return (lines 96-123), one
\* synchronous stretch
ParseReturn(s) ==
    /\ pc[s] = "parse"
    /\ \/ /\ harContent[s].json
          /\ result' = [result EXCEPT ![s] =
                          <<CaptureResult(JsonParse(harContent[s]), pagesVisited[s])>>]
          /\ Goto(s, "done")
          /\ UNCHANGED error
       \/ /\ ~harContent[s].json
          /\ Reject(s, "parse")
          /\ UNCHANGED result
    /\ UNCHANGED <<cli, now, files, urls, options, browser, scratch, scratchHar,
                   context, tempHarPath, page, idx, trace, visits,
                   pagesVisited, harContent>>

\* The clock Date.now() reads moves on
Tick ==
    /\ now < MaxClock
    /\ now' = now + 1
    /\ UNCHANGED <<cli, files, urls, options, pc, browser, scratch, scratchHar,
                   context, tempHarPath, page, idx, trace, visits,
                   pagesVisited, harContent, result, error>>

\* ---- the shape of the state
TypeOK ==
    /\ now \in 0..MaxClock
    /\ \A p \in DOMAIN files :
          p.kind \in {"temp_har", "temp", "temp_capture"} /\ files[p].json \in BOOLEAN
    /\ \A s \in Sessions :
          /\ Len(urls[s]) >= 1
          /\ pc[s] \in {"launch", "scratchNewContext", "scratchRoute", "scratchClose",
                        "newContext", "newPage", "loop", "goto", "pause",
                        "browserClose", "readFile", "unlink", "parse", "done",
                        "rejected"}
          /\ browser[s] \in {"none", "open", "closed"}
          /\ scratch[s] \in {"none", "open", "closed"}
          /\ context[s] \in {"none", "open", "closed"}
          /\ page[s] \in {"none", "open", "closed"}
          /\ scratchHar[s] \subseteq {TempHar} \cup {ScratchPath(t) : t \in 0..MaxClock}
          /\ tempHarPath[s] \in {NoPath} \cup {CapturePath(t) : t \in 0..MaxClock}
          /\ idx[s] = Len(visits[s])
          /\ idx[s] <= Len(urls[s])
          /\ pagesVisited[s] \in 0..idx[s]
          /\ Len(result[s]) <= 1
          /\ harContent[s].json \in BOOLEAN
    /\ cli.pc \in {"none", "main", "capturing", "exited"}
    /\ cli.exitCode \in {0, 1}
    /\ cli.output => cli.exitCode = 0

\* ---- specifications
\* captureWithHar called as a library function, without the runner
NoCli == [pc |-> "none", argv |-> <<>>, usage |-> FALSE, exitCode |-> 0,
          output |-> FALSE]

\* The target lists of a call: non-empty (main exits before the call when no
\* url was given, part_001 lines 312-316), the k-th target named k
TargetLists(n) == { [k \in 1..m |-> k] : m \in 1..n }

\* The state after captureWithHar(urls, options) was called by every session of S
Called(S, lists, waits) ==
    /\ now = 0
    /\ files = NoFiles
    /\ urls \in [S -> lists]
    /\ options \in [S -> [waitMs : waits]]
    /\ pc = [s \in S |-> "launch"]
    /\ browser = [s \in S |-> "none"]
    /\ scratch = [s \in S |-> "none"]
    /\ scratchHar = [s \in S |-> {}]
    /\ context = [s \in S |-> "none"]
    /\ tempHarPath = [s \in S |-> NoPath]
    /\ page = [s \in S |-> "none"]
    /\ idx = [s \in S |-> 0]
    /\ trace = [s \in S |-> <<>>]
    /\ visits = [s \in S |-> <<>>]
    /\ pagesVisited = [s \in S |-> 0]
    /\ harContent = [s \in S |-> NoText]
    /\ result = [s \in S |-> <<>>]
    /\ error = [s \in S |-> "none"]
    /\ cli = NoCli

\* One session
Init == Called({1}, TargetLists(MaxTargets), {Undefined, 0, 5})
Next ==
    \/ Tick
    \/ \E s \in Sessions : Launch(s)
    \/ \E s \in Sessions : ScratchNewContext(s)
    \/ \E s \in Sessions : ScratchRouteFromHAR(s)
    \/ \E s \in Sessions : ScratchClose(s)
    \/ \E s \in Sessions : NewContext(s)
    \/ \E s \in Sessions : NewPage(s)
    \/ \E s \in Sessions : GotoStart(s)
    \/ \E s \in Sessions : GotoOk(s)
    \/ \E s \in Sessions : GotoFail(s)
    \/ \E s \in Sessions : PauseOk(s)
    \/ \E s \in Sessions : PauseFail(s)
    \/ \E s \in Sessions : ContextClose(s)
    \/ \E s \in Sessions : BrowserClose(s)
    \/ \E s \in Sessions : ReadFile(s)
    \/ \E s \in Sessions : Unlink(s)
    \/ \E s \in Sessions : ParseReturn(s)
Spec == Init /\ [][Next]_vars

\* Two sessions whose lifetimes overlap, in one working directory, each with
\* ConcTargets targets and a pause after every page
InitConc == Called({1, 2}, {[k \in 1..ConcTargets |-> k]}, {5})
SpecConc == InitConc /\ [][Next]_vars

\* The aggregation of lines 96-123 on its own: one session that has read its
\* trace back and deleted the file, for every trace of up to MaxEntries entries
\* with up to MaxCookies cookies on each side
CookieNames == {"sid", "__proto__"}
CookieValues == {"1", "2"}
CookieLists ==
    UNION { [1..n -> {Cookie(k, v) : k \in CookieNames, v \in CookieValues}] :
            n \in 0..MaxCookies }
CookieTraces ==
    UNION { [1..n -> {Entry(req, res) : req \in CookieLists, res \in CookieLists}] :
            n \in 0..MaxEntries }

InitCookies ==
    /\ now = 0
    /\ files = WriteFiles(NoFiles, {TempHar, ScratchPath(0)}, HarText(TRUE, <<>>))
    /\ \E t \in CookieTraces, complete \in BOOLEAN :
          \* one target per entry, each loaded; for the empty trace one target
          \* whose navigation failed
          LET vs == IF t = <<>>
                    THEN <<[url |-> 1, nav |-> "failed", pause |-> "none"]>>
                    ELSE [k \in 1..Len(t) |-> [url |-> k, nav |-> "ok", pause |-> "none"]]
          IN  /\ urls = [s \in {1} |-> [k \in 1..Len(vs) |-> k]]
              /\ idx = [s \in {1} |-> Len(vs)]
              /\ trace = [s \in {1} |-> t]
              /\ visits = [s \in {1} |-> vs]
              /\ pagesVisited = [s \in {1} |-> Len(t)]
              /\ harContent = [s \in {1} |-> HarText(complete, t)]
    /\ options = [s \in {1} |-> [waitMs |-> Undefined]]
    /\ pc = [s \in {1} |-> "parse"]
    /\ browser = [s \in {1} |-> "closed"]
    /\ scratch = [s \in {1} |-> "closed"]
    /\ scratchHar = [s \in {1} |-> {TempHar, ScratchPath(0)}]
    /\ context = [s \in {1} |-> "closed"]
    /\ tempHarPath = [s \in {1} |-> CapturePath(0)]
    /\ page = [s \in {1} |-> "open"]
    /\ result = [s \in {1} |-> <<>>]
    /\ error = [s \in {1} |-> "none"]
    /\ cli = NoCli
NextCookies == \E s \in Sessions : ParseReturn(s)
SpecCookies == InitCookies /\ [][NextCookies]_vars

\* ---- the command-line runner (src/unnamed/part_001 lines 191-354)
\* One element of process.argv.slice(2), as parseArgs looks at it:
\* arg.startsWith("-"), the text before the first "=" (the whole text when
\* there is none) and the text after it (lines 243-250)
Pos(text) == [dash |-> FALSE, flag |-> text, inline |-> <<>>]
Opt(flag) == [dash |-> TRUE, flag |-> flag, inline |-> <<>>]
OptEq(flag, value) == [dash |-> TRUE, flag |-> flag, inline |-> <<value>>]

\* Number(value) (lines 256, 263) on the texts of the model: a numeral gives
\* its value, the empty string gives 0, any other text gives NaN
NaN == -2
NumberOf(text) == IF text = "" THEN 0 ELSE IF text = "5" THEN 5 ELSE NaN

\* const options: CliOptions = { crawl: true, headless: false } (line 229);
\* an absent number is Undefined, an absent string is <<>>
DefaultCliOptions ==
    [waitMs |-> Undefined, headless |-> FALSE, crawl |-> TRUE,
     maxPages |-> Undefined, output |-> <<>>, userDataDir |-> <<>>]

\* getValue (lines 232-239): [ok, value, idx]
GetValue(args, i, inline) ==
    IF inline # <<>> THEN [ok |-> TRUE, value |-> inline[1], idx |-> i]
    ELSE IF i + 1 > Len(args) \/ args[i + 1].flag = "" \/ args[i + 1].dash
         THEN [ok |-> FALSE, value |-> "", idx |-> i]
         ELSE [ok |-> TRUE, value |-> args[i + 1].flag, idx |-> i + 1]

Thrown(msg) == [ok |-> FALSE, urls |-> <<>>, options |-> DefaultCliOptions, error |-> msg]

\* The for loop of parseArgs from index i on (lines 241-298)
RECURSIVE ParseFrom(_, _, _, _)
ParseFrom(argv, i, us, opts) ==
    IF i > Len(argv)
    THEN [ok |-> TRUE, urls |-> us, options |-> opts, error |-> "none"]
    ELSE LET arg == argv[i]
             gv == GetValue(argv, i, arg.inline)
         IN  IF ~arg.dash THEN ParseFrom(argv, i + 1, Append(us, arg.flag), opts)
             ELSE IF arg.flag \in {"-w", "--wait"}
             THEN IF ~gv.ok THEN Thrown("Missing value for option")
                  ELSE IF NumberOf(gv.value) = NaN THEN Thrown("wait must be a number")
                  ELSE ParseFrom(argv, gv.idx + 1, us,
                                 [opts EXCEPT !.waitMs = NumberOf(gv.value)])
             ELSE IF arg.flag = "--max-pages"
             THEN IF ~gv.ok THEN Thrown("Missing value for option")
                  ELSE IF NumberOf(gv.value) = NaN THEN Thrown("max-pages must be a number")
                  ELSE ParseFrom(argv, gv.idx + 1, us,
                                 [opts EXCEPT !.maxPages = NumberOf(gv.value)])
             ELSE IF arg.flag \in {"-o", "--output"}
             THEN IF ~gv.ok THEN Thrown("Missing value for option")
                  ELSE ParseFrom(argv, gv.idx + 1, us, [opts EXCEPT !.output = <<gv.value>>])
             ELSE IF arg.flag = "--user-data-dir"
             THEN IF ~gv.ok THEN Thrown("Missing value for option")
                  ELSE ParseFrom(argv, gv.idx + 1, us,
                                 [opts EXCEPT !.userDataDir = <<gv.value>>])
             ELSE IF arg.flag = "--headless"
             THEN ParseFrom(argv, i + 1, us, [opts EXCEPT !.headless = TRUE])
             ELSE IF arg.flag = "--headed"
             THEN ParseFrom(argv, i + 1, us, [opts EXCEPT !.headless = FALSE])
             ELSE IF arg.flag = "--no-crawl"
             THEN ParseFrom(argv, i + 1, us, [opts EXCEPT !.crawl = FALSE])
             ELSE IF arg.flag = "--crawl"
             THEN ParseFrom(argv, i + 1, us, [opts EXCEPT !.crawl = TRUE])
             ELSE Thrown("Unknown option")

\* parseArgs (lines 228-299)
ParseArgs(argv) == ParseFrom(argv, 1, <<>>, DefaultCliOptions)

NoSessions == [s \in {} |-> 0]
Exited(code, usage) == [cli EXCEPT !.pc = "exited", !.exitCode = code, !.usage = usage]
SessionsUnchanged ==
    UNCHANGED <<now, files, urls, options, pc, browser, scratch, scratchHar,
                context, tempHarPath, page, idx, trace, visits, pagesVisited,
                harContent, result, error>>

\* main: parseArgs throws; message, usage, process.exit(1) (lines 302-310)
MainArgError ==
    /\ cli.pc = "main"
    /\ ~ParseArgs(cli.argv).ok
    /\ cli' = Exited(1, TRUE)
    /\ SessionsUnchanged

\* main: no url; usage, process.exit(1) (lines 312-316)
MainNoUrls ==
    /\ cli.pc = "main"
    /\ ParseArgs(cli.argv).ok
    /\ ParseArgs(cli.argv).urls = <<>>
    /\ cli' = Exited(1, TRUE)
    /\ SessionsUnchanged

\* main: captureWithHar(urls, {waitMs: options.waitMs, ...}) is called and
\* runs up to its first await (lines 318-334, har-capture.ts lines 25-26)
MainCapture ==
    /\ cli.pc = "main"
    /\ ParseArgs(cli.argv).ok
    /\ ParseArgs(cli.argv).urls # <<>>
    /\ Sessions = {}
    /\ cli' = [cli EXCEPT !.pc = "capturing"]
    /\ urls' = [s \in {1} |-> ParseArgs(cli.argv).urls]
    /\ options' = [s \in {1} |-> [waitMs |-> ParseArgs(cli.argv).options.waitMs]]
    /\ pc' = [s \in {1} |-> "launch"]
    /\ browser' = [s \in {1} |-> "none"]
    /\ scratch' = [s \in {1} |-> "none"]
    /\ scratchHar' = [s \in {1} |-> {}]
    /\ context' = [s \in {1} |-> "none"]
    /\ tempHarPath' = [s \in {1} |-> NoPath]
    /\ page' = [s \in {1} |-> "none"]
    /\ idx' = [s \in {1} |-> 0]
    /\ trace' = [s \in {1} |-> <<>>]
    /\ visits' = [s \in {1} |-> <<>>]
    /\ pagesVisited' = [s \in {1} |-> 0]
    /\ harContent' = [s \in {1} |-> NoText]
    /\ result' = [s \in {1} |-> <<>>]
    /\ error' = [s \in {1} |-> "none"]
    /\ UNCHANGED <<now, files>>

\* main: the result came back; mkdirSync, writeFileSync and the summary
\* (lines 336-348).  resolve("") is the working directory, which cannot be
\* written as a file; any write can fail, and main().catch exits 1 (351-354)
MainWrite ==
    /\ cli.pc = "capturing"
    /\ \E s \in Sessions : pc[s] = "done"
    /\ \/ /\ ParseArgs(cli.argv).options.output # <<"">>
          /\ cli' = [Exited(0, FALSE) EXCEPT !.output = TRUE]
       \/ cli' = Exited(1, FALSE)
    /\ SessionsUnchanged

\* main: captureWithHar rejected; main().catch logs and exits 1 (lines 351-354)
MainCaptureFailed ==
    /\ cli.pc = "capturing"
    /\ \E s \in Sessions : pc[s] = "rejected"
    /\ cli' = Exited(1, FALSE)
    /\ SessionsUnchanged

\* The arguments of the model, and the command lines of up to MaxArgs of them
MaxArgs == 3
ArgTokens ==
    { Pos("u"), Pos("5"), Opt("--wait"), OptEq("--wait", ""),
      OptEq("--max-pages", "u"), Opt("--output"), OptEq("--output", ""),
      Opt("--headless"),
      Opt("--bogus") }
ArgLists == UNION { [1..n -> ArgTokens] : n \in 0..MaxArgs }

\* The runner started with some command line: nothing has run yet
InitCli ==
    /\ now = 0
    /\ files = NoFiles
    /\ cli \in { [pc |-> "main", argv |-> a, usage |-> FALSE, exitCode |-> 0,
                  output |-> FALSE] : a \in ArgLists }
    /\ urls = NoSessions
    /\ options = NoSessions
    /\ pc = NoSessions
    /\ browser = NoSessions
    /\ scratch = NoSessions
    /\ scratchHar = NoSessions
    /\ context = NoSessions
    /\ tempHarPath = NoSessions
    /\ page = NoSessions
    /\ idx = NoSessions
    /\ trace = NoSessions
    /\ visits = NoSessions
    /\ pagesVisited = NoSessions
    /\ harContent = NoSessions
    /\ result = NoSessions
    /\ error = NoSessions
NextCli ==
    \/ Next
    \/ MainArgError
    \/ MainNoUrls
    \/ MainCapture
    \/ MainWrite
    \/ MainCaptureFailed
SpecCli == InitCli /\ [][NextCli]_vars

\* ---- what the claims speak of
Returned(s) == result[s] # <<>>
Res(s) == result[s][1]
Ended(s) == pc[s] \in {"done", "rejected"}
NavCount(s, outcome) == Cardinality({k \in 1..Len(visits[s]) : visits[s][k].nav = outcome})
VisitedUrls(s) == [k \in 1..Len(visits[s]) |-> visits[s][k].url]
\* The HAR paths the contexts of session s record to
SessionPaths(s) == scratchHar[s] \cup ({tempHarPath[s]} \ {NoPath})
\* The cookies of a trace in the order the loops of lines 101-111 reach them
RECURSIVE Flat(_)
Flat(entries) ==
    IF entries = <<>> THEN <<>>
    ELSE Head(entries).request.cookies \o Head(entries).response.cookies
            \o Flat(Tail(entries))
LastIndexOf(f, n) == CHOOSE i \in 1..Len(f) :
    f[i].name = n /\ \A j \in (i + 1)..Len(f) : f[j].name # n

\* C1: whenever captureWithHar returns a result, result.requestCount is the
\* number of entries of result.har, whatever navigations failed.
RequestCountEqualsEntries ==
    \A s \in Sessions :
        Returned(s) => Res(s).requestCount = Len(Res(s).har.log.entries)

\* A result over two targets, one failed and one loaded, with a non-empty trace
RequestCountWitness ==
    \E s \in Sessions :
        /\ Returned(s)
        /\ Len(urls[s]) = 2
        /\ NavCount(s, "failed") = 1
        /\ NavCount(s, "ok") = 1
        /\ Res(s).requestCount >= 1

\* C2: in every terminal state of a session, returned or rejected, none of
\* the temporary HAR files its contexts recorded to is left on disk.
NoTempFileAfterEnd ==
    \A s \in Sessions : Ended(s) => SessionPaths(s) \cap DOMAIN files = {}

\* C3: once the browser has been launched it is closed on every exit of the
\* session, exits by an exception included.
BrowserReleasedOnExit ==
    \A s \in Sessions : (Ended(s) /\ browser[s] # "none") => browser[s] = "closed"

\* C4: a failed navigation never rejects the session and never stops the
\* loop: the targets are taken once each in list order, at most one
\* navigation is pending, all of them have been attempted before the context
\* is closed or a result returned, and the step after a navigation or pause
\* goes on with the loop.
NavigationFailureIsLocal ==
    /\ [](\A s \in Sessions :
            /\ VisitedUrls(s) = SubSeq(urls[s], 1, Len(visits[s]))
            /\ NavCount(s, "pending") <= 1
            /\ (context[s] = "closed" \/ Returned(s)) =>
                   (Len(visits[s]) = Len(urls[s]) /\ NavCount(s, "pending") = 0)
            /\ Returned(s) => pc[s] = "done")
    /\ [][\A s \in Sessions :
            pc[s] \in {"goto", "pause"} => pc'[s] \in {"goto", "pause", "loop"}]_vars

\* The first target failed, the second was still visited, a result came back
NavigationFailureWitness ==
    \E s \in Sessions :
        /\ Returned(s)
        /\ Len(visits[s]) = 2
        /\ visits[s][1].nav = "failed"
        /\ visits[s][2].nav = "ok"

\* C5: crawlResult.pagesCrawled is at most the number of targets and equals
\* the number of targets whose navigation succeeded (hence all of them when
\* every navigation succeeds).
PagesCrawledCountsNavigations ==
    \A s \in Sessions :
        Returned(s) =>
            /\ Res(s).crawlResult.pagesCrawled <= Len(urls[s])
            /\ Res(s).crawlResult.pagesCrawled = NavCount(s, "ok")

\* C6: the recording context is closed only after the last target was
\* attempted, the browser only after the context, the file is read back only
\* after the context was closed, and the trace that is parsed holds every
\* exchange the session recorded.
ReleaseThenReadBack ==
    \A s \in Sessions :
        /\ context[s] = "closed" =>
              (Len(visits[s]) = Len(urls[s]) /\ NavCount(s, "pending") = 0)
        /\ browser[s] = "closed" => context[s] = "closed"
        /\ pc[s] \in {"unlink", "parse", "done"} => context[s] = "closed"
        /\ Returned(s) => Res(s).har.log.entries = trace[s]

\* C7: two sessions that are running at the same time never record to a
\* common file path.
DistinctTraceDestinations ==
    \A s, t \in Sessions :
        (s # t /\ ~Ended(s) /\ ~Ended(t)) => SessionPaths(s) \cap SessionPaths(t) = {}

\* C8: the cookie map of a result holds, for every cookie name of the trace,
\* the value of its last occurrence in entry order, request cookies before
\* response cookies, and has no other key.
CookiesLastWriterWins ==
    \A s \in Sessions :
        Returned(s) =>
            LET f == Flat(Res(s).har.log.entries)
                names == {f[i].name : i \in 1..Len(f)}
            IN  /\ DOMAIN Res(s).cookies = names
                /\ \A n \in names : Res(s).cookies[n] = f[LastIndexOf(f, n)].value

\* C9 as written: a session is rejected only when the browser or the
\* recording context cannot be acquired or the trace cannot be read back or
\* parsed, and a rejected session returns nothing.
FailsOnlyOnAcquireOrReadBack ==
    \A s \in Sessions :
        pc[s] = "rejected" =>
            /\ error[s] \in {"launch", "newContext", "readFile", "parse"}
            /\ ~Returned(s)

\* C9 as amended: a session is rejected only when an await outside the
\* per-target try block rejects (launch, newContext, newPage, context.close,
\* browser.close, readFile, unlink) or JSON.parse throws; a rejected session
\* returns nothing, and a session that is not rejected carries no error.
FailsOnlyOnUncaughtAwait ==
    \A s \in Sessions :
        /\ pc[s] = "rejected" =>
              /\ error[s] \in {"launch", "newContext", "newPage", "contextClose",
                               "browserClose", "readFile", "unlink", "parse"}
              /\ ~Returned(s)
        /\ pc[s] # "rejected" => error[s] = "none"

\* A session that visited a page and then could not parse its trace
FinalizationFailureWitness ==
    \E s \in Sessions :
        /\ pc[s] = "rejected"
        /\ error[s] = "parse"
        /\ Len(harContent[s].entries) >= 1
        /\ ~Returned(s)

\* C10: a parsed trace without entries gives a result, not an exception, and
\* that result has requestCount 0 and an empty cookie map.
EmptyTraceWellFormed ==
    /\ [](\A s \in Sessions :
            (Returned(s) /\ Res(s).har.log.entries = <<>>) =>
                (Res(s).requestCount = 0 /\ DOMAIN Res(s).cookies = {}))
    /\ [][\A s \in Sessions :
            (pc[s] = "parse" /\ harContent[s].json /\ harContent[s].entries = <<>>)
                => pc'[s] \in {"parse", "done"}]_vars

\* Every target failed navigation, nothing was recorded, a result came back
EmptyTraceWitness ==
    \E s \in Sessions :
        /\ Returned(s)
        /\ Len(urls[s]) >= 1
        /\ NavCount(s, "failed") = Len(urls[s])
        /\ Res(s).har.log.entries = <<>>
        /\ Res(s).requestCount = 0

\* The contexts with HAR recording the session has created, and the HAR
\* files its closed contexts have written
RecordingContexts(s) ==
    (IF scratch[s] # "none" THEN 1 ELSE 0) + (IF context[s] # "none" THEN 1 ELSE 0)
TraceFilesWritten(s) ==
    (IF scratch[s] = "closed" THEN Cardinality(scratchHar[s]) ELSE 0)
        + (IF context[s] = "closed" THEN 1 ELSE 0)
\* Whether the pause of visit k of session s has been started and has ended
PauseOver(s, k) == visits[s][k].pause \in {"ok", "failed"}
PauseRunning(s, k) == k = Len(visits[s]) /\ pc[s] = "pause"

\* C12: a session that returns has created exactly one recording context and
\* its contexts have written exactly one trace file, after every target was
\* attempted.
OneContextOneTrace ==
    \A s \in Sessions :
        Returned(s) =>
            /\ RecordingContexts(s) = 1
            /\ TraceFilesWritten(s) = 1
            /\ Len(visits[s]) = Len(urls[s])

KnownFlags ==
    {"-w", "--wait", "--max-pages", "-o", "--output", "--user-data-dir",
     "--headless", "--headed", "--no-crawl", "--crawl"}
ValueFlags == {"-w", "--wait", "--max-pages", "-o", "--output", "--user-data-dir"}
NumericFlags == {"-w", "--wait", "--max-pages"}
Numerals == {"5"}

\* argument i is the value of the option before it
IsValueAt(argv, i) ==
    /\ i > 1
    /\ ~argv[i].dash
    /\ argv[i - 1].dash /\ argv[i - 1].flag \in ValueFlags /\ argv[i - 1].inline = <<>>
Unrecognized(argv) ==
    \E i \in 1..Len(argv) : argv[i].dash /\ argv[i].flag \notin KnownFlags
MissingValue(argv) ==
    \E i \in 1..Len(argv) :
        /\ argv[i].dash /\ argv[i].flag \in ValueFlags
        /\ \/ argv[i].inline = <<"">>
           \/ /\ argv[i].inline = <<>>
              /\ (i = Len(argv) \/ argv[i + 1].dash \/ argv[i + 1].flag = "")
NonNumeric(argv) ==
    \E i \in 1..Len(argv) :
        /\ argv[i].dash /\ argv[i].flag \in NumericFlags
        /\ \/ argv[i].inline # <<>> /\ argv[i].inline[1] \notin Numerals
           \/ /\ argv[i].inline = <<>> /\ i < Len(argv) /\ ~argv[i + 1].dash
              /\ argv[i + 1].flag \notin Numerals
NoTarget(argv) ==
    \A i \in 1..Len(argv) : argv[i].dash \/ IsValueAt(argv, i)
ArgError(argv) ==
    Unrecognized(argv) \/ MissingValue(argv) \/ NonNumeric(argv) \/ NoTarget(argv)

\* C11: when the command line has an argument error (an unrecognized option,
\* an option missing its value, a non-numeric --wait or --max-pages, or no
\* target address), captureWithHar is never called, no output file is
\* written, and when the process has exited it has printed usage and exited
\* non-zero.
ArgumentErrorReportedFirst ==
    (cli.pc # "none" /\ ArgError(cli.argv)) =>
        /\ Sessions = {}
        /\ ~cli.output
        /\ cli.pc = "exited" => (cli.usage /\ cli.exitCode # 0)

====
